---- MODULE Spec2Model ----
(***************************************************************************)
(* Model of kgp/utils/execute.py: train(model, data, ...).                 *)
(*                                                                         *)
(* One frame per thread holds the locals of a running call of train; the   *)
(* globals are what calls share: the checkpoints/ directory and its files, *)
(* the list object bound to the default value of the callbacks parameter,  *)
(* and the model's weights.  model.fit, ModelCheckpoint, os and warnings   *)
(* are the environment: fit runs epochs, each epoch produces new weights   *)
(* and metric values and invokes the hooks it was passed; a hook saves     *)
(* when its monitored value is available and better than its best so far.  *)
(***************************************************************************)
EXTENDS Integers, Sequences, FiniteSets, TLC

\* ---- bounds -------------------------------------------------------------
MaxCalls == 2
MaxEpochs == 2
ConcEpochs == 1
MaxMetric == 2

\* ---- value sets ---------------------------------------------------------
Procs == {1, 2}
MainThread == {1}
None == "None"
Names == {"m1", "m2"}
Monitors == {"loss", "val_loss"}
Metrics == 1 .. MaxMetric
NoMetric == 0
Inf == MaxMetric + 1
StartNotice == "Training...\n"
DoneNotice == "Done.\n"
NoHistory == [run |-> 0, epochs |-> 0]

VARIABLES
    frame,       \* frame[p]: locals (and observations) of thread p's call
    dirExists,   \* os.path.isdir('checkpoints/')
    files,       \* files[path]: the file at a checkpoint path
    defaults,    \* the list bound to the default of parameter callbacks
    own,         \* own[p]: the list thread p's caller passed as callbacks
    weights,     \* the model's current weights: the epoch that produced them
    ncalls       \* number of calls of train started

vars == <<frame, dirExists, files, defaults, own, weights, ncalls>>

\* the weights of a model that no call has trained yet
Untrained == [run |-> 0, epoch |-> 0]

NoFile == [exists |-> FALSE, w |-> Untrained]

IdleFrame ==
    [pc |-> "idle", id |-> 0, nb_epoch |-> 0, checkpoint |-> None,
     valid |-> FALSE,
     checkpoint_monitor |-> "val_loss", verbose |-> FALSE,
     callbacks |-> "default", sawDir |-> FALSE, sawFile |-> FALSE,
     npassed |-> 0, epoch |-> 0, history |-> NoHistory, ret |-> NoHistory,
     out |-> <<>>, warnings |-> 0, loaded |-> FALSE, thrown |-> "none",
     exc |-> "none", ops |-> {}, fitCalled |-> FALSE, dirAtFit |-> FALSE,
     hookSaved |-> Untrained, fitWeights |-> Untrained, loadedFile |-> NoFile]

\* 'checkpoints/%s.h5' % checkpoint: directory, base name, extension
PathOf(checkpoint) == <<"checkpoints", checkpoint, "h5">>

\* the checkpoint paths the calls can name
Paths == {PathOf(n) : n \in Names}

\* ModelCheckpoint(filepath, monitor=..., save_weights_only=True,
\*                 save_best_only=True); best starts at infinity
ModelCheckpoint(filepath, monitor, id) ==
    [filepath |-> filepath, monitor |-> monitor, best |-> Inf, owner |-> id]

\* the list object the name callbacks is bound to in thread p's frame
CallbackList(p) ==
    IF frame[p].callbacks = "default" THEN defaults ELSE own[p]

Init ==
    /\ frame = [p \in Procs |-> IdleFrame]
    /\ dirExists \in BOOLEAN
    /\ files = [path \in Paths |-> NoFile]
    /\ defaults = <<>>
    /\ own = [p \in Procs |-> <<>>]
    /\ weights = Untrained
    /\ ncalls = 0

FirstStep_NoDirectoryStep(checkpoint) == "append"

\* if checkpoint is not None: (make sure the checkpoints directory exists)
FirstStep(checkpoint) == IF checkpoint # None THEN "isdir" ELSE "append"

\* def train(model, data, ..., callbacks=[], checkpoint=None, ...): a call
\* binds the parameters; callbacks is the shared default list or the list
\* the caller passes (an empty one here)
Invoke(p, nb_epoch, cp, valid, mon, verbose, cb) ==
    /\ frame' = [frame EXCEPT ![p] =
           [IdleFrame EXCEPT !.pc = FirstStep(cp), !.id = ncalls + 1,
                             !.nb_epoch = nb_epoch,
                             !.checkpoint = cp, !.valid = valid,
                             !.checkpoint_monitor = mon,
                             !.verbose = verbose, !.callbacks = cb]]
    /\ own' = [own EXCEPT ![p] = <<>>]
    /\ ncalls' = ncalls + 1
    /\ UNCHANGED <<dirExists, files, defaults, weights>>

\* a call of train, once the thread's previous call is over
Call(p) ==
    /\ frame[p].pc \in {"idle", "returned", "raised"}
    /\ ncalls < MaxCalls
    /\ \E cp \in Names \cup {None}, valid \in BOOLEAN, verbose \in BOOLEAN,
          cb \in {"default", "own"} :
       \E mon \in (IF cp = None THEN {"val_loss"} ELSE Monitors),
          nb_epoch \in {0, MaxEpochs} :
          Invoke(p, nb_epoch, cp, valid, mon, verbose, cb)

\* the one call a thread makes when two threads call train with checkpoint
\* set (checkpoint_monitor and verbose left at their defaults)
ConcurrentCall(p) ==
    /\ frame[p].pc = "idle"
    /\ \E cp \in Names, valid \in BOOLEAN, cb \in {"default", "own"} :
          Invoke(p, ConcEpochs, cp, valid, "val_loss", TRUE, cb)

AfterIsDir_NoTest(isdir) == "makedirs"

\* if not os.path.isdir('checkpoints/'): os.makedirs(...)
AfterIsDir(isdir) == IF isdir THEN "append" ELSE "makedirs"

\* os.path.isdir('checkpoints/')
IsDir(p) ==
    /\ frame[p].pc = "isdir"
    /\ frame' = [frame EXCEPT ![p].sawDir = dirExists,
                              ![p].ops = @ \cup {"isdir"},
                              ![p].pc = AfterIsDir(dirExists)]
    /\ UNCHANGED <<dirExists, files, defaults, own, weights, ncalls>>

Raise_Caught(fr, e) == [fr EXCEPT !.pc = "return", !.thrown = e]

\* an exception leaves train: nothing in train catches it
Raise(fr, e) == [fr EXCEPT !.pc = "raised", !.thrown = e, !.exc = e]

\* what os.makedirs('checkpoints/') can do: it fails when the directory is
\* there, and otherwise creates it or fails for a reason of the environment
MakedirsOutcomes(isdir) ==
    IF isdir THEN {"FileExistsError"} ELSE {"ok", "PermissionError"}

\* os.makedirs('checkpoints/')
Makedirs(p) ==
    /\ frame[p].pc = "makedirs"
    /\ \E res \in MakedirsOutcomes(dirExists) :
         /\ dirExists' = (dirExists \/ res = "ok")
         /\ frame' = [frame EXCEPT ![p] =
                IF res = "ok"
                THEN [@ EXCEPT !.pc = "append", !.ops = @ \cup {"makedirs"}]
                ELSE Raise([@ EXCEPT !.ops = @ \cup {"makedirs"}], res)]
    /\ UNCHANGED <<files, defaults, own, weights, ncalls>>

\* if checkpoint is not None: callbacks += [ModelCheckpoint(...)]
\* (+= on a list extends the list object in place)
AppendHook(p) ==
    /\ frame[p].pc = "append"
    /\ LET f == frame[p]
           hook == ModelCheckpoint(PathOf(f.checkpoint), f.checkpoint_monitor, f.id)
           new == IF f.checkpoint # None
                  THEN Append(CallbackList(p), hook)
                  ELSE CallbackList(p)
       IN /\ defaults' = IF f.callbacks = "default" THEN new ELSE defaults
          /\ own' = IF f.callbacks = "default" THEN own
                    ELSE [own EXCEPT ![p] = new]
    /\ frame' = [frame EXCEPT ![p].pc = "write_start"]
    /\ UNCHANGED <<dirExists, files, weights, ncalls>>

Notice_Always(verbose, out, line) == Append(out, line)

\* if verbose: sys.stdout.write(line)
Notice(verbose, out, line) == IF verbose THEN Append(out, line) ELSE out

\* if verbose: sys.stdout.write("Training...\n")
WriteStart(p) ==
    /\ frame[p].pc = "write_start"
    /\ frame' = [frame EXCEPT ![p].pc = "call_fit",
                              ![p].out = Notice(frame[p].verbose, @, StartNotice)]
    /\ UNCHANGED <<dirExists, files, defaults, own, weights, ncalls>>

\* history = model.fit(..., callbacks=callbacks, ...): the call; fit keeps
\* the hooks that are in the list at this moment
FitCall(p) ==
    /\ frame[p].pc = "call_fit"
    /\ frame' = [frame EXCEPT ![p].pc = "fitting",
                              ![p].npassed = Len(CallbackList(p)),
                              ![p].fitCalled = TRUE,
                              ![p].dirAtFit = dirExists]
    /\ UNCHANGED <<dirExists, files, defaults, own, weights, ncalls>>

\* the hooks passed to thread p's fit
PassedHooks(p) == SubSeq(CallbackList(p), 1, frame[p].npassed)

\* the value a hook monitors at the end of an epoch (none when the channel
\* was not computed)
Current(hook, loss, val_loss) ==
    IF hook.monitor = "loss" THEN loss ELSE val_loss

\* save_best_only: a hook saves when its value is there and beats its best
Improves(hook, current) == current # NoMetric /\ current < hook.best

\* the hooks from position i on run at the end of the epoch that produced
\* weights w; acc carries the hooks, the files and who saved
RECURSIVE RunHooks(_, _, _, _, _, _)
RunHooks(acc, i, n, w, loss, val_loss) ==
    IF i > n THEN acc
    ELSE LET hook == acc.hooks[i]
             current == Current(hook, loss, val_loss)
         IN IF Improves(hook, current)
            THEN RunHooks(
                   [hooks |-> [acc.hooks EXCEPT ![i].best = current],
                    files |-> [acc.files EXCEPT ![hook.filepath] =
                                 [exists |-> TRUE, w |-> w]],
                    savers |-> acc.savers \cup {hook.owner}],
                   i + 1, n, w, loss, val_loss)
            ELSE RunHooks(acc, i + 1, n, w, loss, val_loss)

\* one epoch inside model.fit: new weights, new metric values, then the
\* hooks passed to this fit, in list order
FitEpoch(p) ==
    /\ frame[p].pc = "fitting"
    /\ frame[p].epoch < frame[p].nb_epoch
    /\ \E loss \in Metrics,
          val_loss \in (IF frame[p].valid THEN Metrics ELSE {NoMetric}) :
         LET f == frame[p]
             w == [run |-> f.id, epoch |-> f.epoch + 1]
             r == RunHooks([hooks |-> CallbackList(p), files |-> files,
                            savers |-> {}],
                           1, f.npassed, w, loss, val_loss)
         IN /\ weights' = w
            /\ files' = r.files
            /\ defaults' = IF f.callbacks = "default" THEN r.hooks ELSE defaults
            /\ own' = IF f.callbacks = "default" THEN own
                      ELSE [own EXCEPT ![p] = r.hooks]
            /\ frame' = [frame EXCEPT
                 ![p].epoch = @ + 1,
                 ![p].ops = IF r.savers # {} THEN @ \cup {"write"} ELSE @,
                 ![p].hookSaved = IF f.id \in r.savers THEN w ELSE @]
    /\ UNCHANGED <<dirExists, ncalls>>

\* model.fit returns the history after nb_epoch epochs
FitReturn(p) ==
    /\ frame[p].pc = "fitting"
    /\ frame[p].epoch = frame[p].nb_epoch
    /\ frame' = [frame EXCEPT
         ![p].pc = "write_done",
         ![p].history = [run |-> frame[p].id, epochs |-> frame[p].epoch],
         ![p].fitWeights = weights]
    /\ UNCHANGED <<dirExists, files, defaults, own, weights, ncalls>>

\* model.fit raises
FitRaise(p) ==
    /\ frame[p].pc = "fitting"
    /\ frame' = [frame EXCEPT ![p] = Raise(@, "FitError")]
    /\ UNCHANGED <<dirExists, files, defaults, own, weights, ncalls>>

\* if checkpoint is not None: (after training)
AfterDone(checkpoint) == IF checkpoint # None THEN "isfile" ELSE "return"

\* if verbose: sys.stdout.write('Done.\n')
WriteDone(p) ==
    /\ frame[p].pc = "write_done"
    /\ frame' = [frame EXCEPT ![p].pc = AfterDone(frame[p].checkpoint),
                              ![p].out = Notice(frame[p].verbose, @, DoneNotice)]
    /\ UNCHANGED <<dirExists, files, defaults, own, weights, ncalls>>

AfterIsFile_WarnToo(isfile) == "warn"

\* if os.path.isfile(...): model.load_weights(...) else: warnings.warn(...)
AfterIsFile(isfile) == IF isfile THEN "load" ELSE "warn"

\* os.path.isfile('checkpoints/%s.h5' % checkpoint)
IsFile(p) ==
    /\ frame[p].pc = "isfile"
    /\ LET isfile == files[PathOf(frame[p].checkpoint)].exists
       IN frame' = [frame EXCEPT ![p].sawFile = isfile,
                                 ![p].ops = @ \cup {"isfile"},
                                 ![p].pc = AfterIsFile(isfile)]
    /\ UNCHANGED <<dirExists, files, defaults, own, weights, ncalls>>

\* model.load_weights('checkpoints/%s.h5' % checkpoint)
LoadWeights(p) ==
    /\ frame[p].pc = "load"
    /\ LET file == files[PathOf(frame[p].checkpoint)]
       IN \E res \in {"ok", "LoadError"} :
            /\ weights' = IF res = "ok" THEN file.w ELSE weights
            /\ frame' = [frame EXCEPT ![p] =
                 IF res = "ok"
                 THEN [@ EXCEPT !.pc = "return", !.loaded = TRUE,
                                !.loadedFile = file, !.ops = @ \cup {"load"}]
                 ELSE Raise([@ EXCEPT !.loaded = TRUE, !.ops = @ \cup {"load"}],
                            res)]
    /\ UNCHANGED <<dirExists, files, defaults, own, ncalls>>

\* warnings.warn('Checkpoint file was specified, but no models were saved ...')
Warn(p) ==
    /\ frame[p].pc = "warn"
    /\ frame' = [frame EXCEPT ![p].pc = "return", ![p].warnings = @ + 1]
    /\ UNCHANGED <<dirExists, files, defaults, own, weights, ncalls>>

\* return history
Return(p) ==
    /\ frame[p].pc = "return"
    /\ frame' = [frame EXCEPT ![p].pc = "returned", ![p].ret = frame[p].history]
    /\ UNCHANGED <<dirExists, files, defaults, own, weights, ncalls>>

\* the steps of a call in progress
Body(p) ==
    \/ IsDir(p)
    \/ Makedirs(p)
    \/ AppendHook(p)
    \/ WriteStart(p)
    \/ FitCall(p)
    \/ FitEpoch(p)
    \/ FitReturn(p)
    \/ FitRaise(p)
    \/ WriteDone(p)
    \/ IsFile(p)
    \/ LoadWeights(p)
    \/ Warn(p)
    \/ Return(p)

\* calls of train one after another, from one thread
Next == \E p \in MainThread : Call(p) \/ Body(p)

Spec == Init /\ [][Next]_vars

\* one call of train from each of two threads, interleaved at every step
NextConc == \E p \in Procs : ConcurrentCall(p) \/ Body(p)

SpecConc == Init /\ [][NextConc]_vars

\* ---- properties ---------------------------------------------------------

Finished(f) == f.pc = "returned"
Checkpointing(f) == f.checkpoint # None
CheckpointFile(f) == files[PathOf(f.checkpoint)]

\* C1: a call with checkpoint set and a 'valid' split, whose own hook saved
\* at least once, returns with checkpoints/<checkpoint>.h5 present and the
\* model holding the weights its hook saved last (its best-monitored epoch).
C1_BestWeightsOnReturn ==
    \A p \in Procs :
        LET f == frame[p]
        IN (Finished(f) /\ Checkpointing(f) /\ f.valid
              /\ f.hookSaved # Untrained)
           => (CheckpointFile(f).exists /\ weights = f.hookSaved)

\* C2: a call with checkpoint set and no 'valid' split, during which nothing
\* is saved, never calls load_weights and returns the history with exactly
\* one warning raised and no file at checkpoints/<checkpoint>.h5.
C2_NoValidWarnsOnce ==
    \A p \in Procs :
        LET f == frame[p]
        IN (Checkpointing(f) /\ ~f.valid /\ "write" \notin f.ops)
           => /\ ~f.loaded
              /\ Finished(f) => /\ ~CheckpointFile(f).exists
                                /\ f.warnings = 1
                                /\ f.ret = f.history

\* C3: a call with checkpoint None and no 'valid' split performs no
\* filesystem operation, raises no warning and returns what fit returned.
C3_NoCheckpointNoFilesystem ==
    \A p \in Procs :
        LET f == frame[p]
        IN (f.id # 0 /\ ~Checkpointing(f) /\ ~f.valid)
           => /\ f.ops = {}
              /\ f.warnings = 0
              /\ Finished(f) => f.ret = [run |-> f.id, epochs |-> f.nb_epoch]

\* C4: in a sequence of calls with checkpoint set, makedirs never fails on
\* an existing directory, checkpoints/ exists when fit is invoked and it
\* exists when the call returns.
C4_DirectoryReady ==
    \A p \in Procs :
        LET f == frame[p]
        IN Checkpointing(f)
           => /\ f.thrown # "FileExistsError"
              /\ f.fitCalled => f.dirAtFit
              /\ Finished(f) => dirExists

C4_Witness ==
    \E p \in Procs :
        LET f == frame[p]
        IN Finished(f) /\ Checkpointing(f) /\ f.id = 2 /\ f.sawDir
           /\ f.dirAtFit

\* C5: with verbose false train writes nothing; with verbose true it writes
\* the start notice before fit is invoked and the completion notice after
\* fit has returned and before the file test, the reload and the warning.
C5_NoticesFollowVerbose ==
    \A p \in Procs :
        LET f == frame[p]
        IN /\ ~f.verbose => f.out = <<>>
           /\ f.verbose =>
                /\ f.pc \in {"isdir", "makedirs", "append", "write_start"}
                     => f.out = <<>>
                /\ f.pc \in {"call_fit", "fitting", "write_done"}
                     => f.out = <<StartNotice>>
                /\ f.pc \in {"isfile", "load", "warn", "return", "returned"}
                     => f.out = <<StartNotice, DoneNotice>>
                /\ f.fitCalled => (Len(f.out) >= 1 /\ f.out[1] = StartNotice)
                /\ Len(f.out) = 2 => f.history # NoHistory
                /\ ("isfile" \in f.ops \/ f.loaded \/ f.warnings > 0)
                     => f.out = <<StartNotice, DoneNotice>>

C5_Witness ==
    \E p \in Procs :
        LET f == frame[p]
        IN Finished(f) /\ f.verbose /\ Checkpointing(f) /\ f.loaded
           /\ f.out = <<StartNotice, DoneNotice>>

\* C6: an exception raised by makedirs, fit or load_weights reaches the
\* caller as raised and ends the call: nothing later in train has run, and
\* after fit raises there is no completion notice, no file test, no
\* load_weights, no warning and no history.
C6_ExceptionsPropagate ==
    \A p \in Procs :
        LET f == frame[p]
        IN f.thrown # "none"
           => /\ f.pc = "raised"
              /\ f.exc = f.thrown
              /\ f.ret = NoHistory
              /\ f.thrown \in {"FileExistsError", "PermissionError"}
                   => /\ ~f.fitCalled
                      /\ f.out = <<>>
                      /\ f.ops = {"isdir", "makedirs"}
              /\ f.thrown = "FitError"
                   => /\ f.history = NoHistory
                      /\ f.out = Notice(f.verbose, <<>>, StartNotice)
                      /\ ~f.loaded
                      /\ f.warnings = 0
                      /\ "isfile" \notin f.ops
              /\ f.thrown = "LoadError" => f.warnings = 0

C6_Witness ==
    \E p \in Procs :
        LET f == frame[p]
        IN f.pc = "raised" /\ f.thrown = "FitError" /\ f.verbose
           /\ Checkpointing(f) /\ f.epoch > 0

\* C7: when the caller supplies no callbacks, fit is passed no hook if
\* checkpoint is None and otherwise exactly one hook, created by this call
\* for checkpoints/<checkpoint>.h5.
C7_FreshCallbacksPerCall ==
    \A p \in Procs :
        LET f == frame[p]
            hooks == PassedHooks(p)
        IN (f.callbacks = "default" /\ f.fitCalled)
           => /\ Len(hooks) = (IF Checkpointing(f) THEN 1 ELSE 0)
              /\ \A i \in 1 .. Len(hooks) :
                    /\ hooks[i].owner = f.id
                    /\ hooks[i].filepath = PathOf(f.checkpoint)

\* C8: the file load_weights loads was written during this call's fit.
C8_LoadsThisRunsCheckpoint ==
    \A p \in Procs :
        LET f == frame[p]
        IN (f.loaded /\ f.thrown = "none") => f.loadedFile.w.run = f.id

\* C9: after fit returns in a call with checkpoint set, either load_weights
\* is called on checkpoints/<checkpoint>.h5 (iff the file is there) or one
\* warning is raised (iff it is not); the call returns the history of fit,
\* and the warning leaves the weights as fit left them.
C9_ReloadOrWarn ==
    \A p \in Procs :
        LET f == frame[p]
        IN (Checkpointing(f) /\ f.pc \in {"return", "returned"})
           => /\ f.loaded # (f.warnings = 1)
              /\ f.warnings <= 1
              /\ f.loaded <=> f.sawFile
              /\ f.sawFile <=> CheckpointFile(f).exists
              /\ f.loaded => (f.loadedFile = CheckpointFile(f)
                                /\ weights = f.loadedFile.w)
              /\ f.warnings = 1 => weights = f.fitWeights
              /\ f.history = [run |-> f.id, epochs |-> f.nb_epoch]
              /\ Finished(f) => f.ret = f.history

C9_Witness ==
    \E p \in Procs :
        LET f == frame[p]
        IN Finished(f) /\ Checkpointing(f) /\ f.warnings = 1 /\ f.epoch > 0
           /\ weights = f.fitWeights /\ f.id = 2

\* C10 as stated: with two concurrent calls, no makedirs fails on a
\* directory the other call has created, and fit is invoked with the
\* directory present.
C10_NoRaceOnDirectory ==
    \A p \in Procs :
        LET f == frame[p]
        IN /\ f.thrown # "FileExistsError"
           /\ f.fitCalled => f.dirAtFit

\* C10 amended: with two concurrent calls, makedirs fails on an existing
\* directory only in a call whose isdir test saw no directory (the other
\* call created it in between), that call never reaches fit, and every call
\* that reaches fit does so with the directory present.
C10_RaceOnlyAfterStaleTest ==
    \A p \in Procs :
        LET f == frame[p]
        IN /\ f.thrown = "FileExistsError"
                => (~f.sawDir /\ dirExists /\ ~f.fitCalled /\ f.pc = "raised")
           /\ f.fitCalled => f.dirAtFit

C10_Witness ==
    \E p, q \in Procs :
        /\ frame[p].thrown = "FileExistsError"
        /\ frame[q].fitCalled /\ frame[q].dirAtFit /\ ~frame[q].sawDir
====
